---- MODULE Spec2Model ----
(***************************************************************************)
(* A model of js/listbox.js: the aria.Listbox widget.                      *)
(*                                                                         *)
(* One document holds two listbox nodes (list 1 precedes list 2 in tree    *)
(* order).  Option elements are created by createListItems; an element is  *)
(* a handle 1..MaxElems carrying its id attribute, its label and its       *)
(* aria-selected and aria-checked attributes (the 'focused' class, which   *)
(* only a style sheet reads, is left out).                                 *)
(* Every method of aria.Listbox is an operator from a state record to a    *)
(* state record; an action applies one handler to the current state.       *)
(***************************************************************************)
EXTENDS Integers, Sequences, FiniteSets, TLC

\* ---- bounds of the model
MaxElems == 3       \* option elements the document ever creates
MaxKeys  == 2       \* longest type-ahead buffer explored

Lists  == {1, 2}
Elems  == 1..MaxElems
NoElem == 0          \* the null element
NoId   == -1         \* a null id (activeDescendant = null)
NoList == 0          \* a null listbox (siblingList = null, a detached element)

\* the labels a caller hands to createListItems
Apple  == <<"A", "p", "p", "l", "e">>
Banana == <<"B", "a", "n", "a", "n", "a">>
Cherry == <<"C", "h", "e", "r", "r", "y">>
CreateInputs == { <<Apple, Banana, Cherry>>, <<Banana, Banana>>, <<Banana>> }

\* aria.KeyCode, as a record of key codes
KeyCode == [ BACKSPACE |-> 8, RETURN |-> 13, SPACE |-> 32, PAGE_UP |-> 33,
             PAGE_DOWN |-> 34, END |-> 35, HOME |-> 36, UP |-> 38, DOWN |-> 40,
             DELETE |-> 46 ]
ControlKeys == { KeyCode.BACKSPACE, KeyCode.RETURN, KeyCode.SPACE, KeyCode.PAGE_UP,
                 KeyCode.PAGE_DOWN, KeyCode.END, KeyCode.HOME, KeyCode.UP,
                 KeyCode.DOWN, KeyCode.DELETE }
\* keydown codes of the letter keys a, b and c, and what String.fromCharCode gives
CharKeys == { 65, 66, 67 }
fromCharCode(key) == CASE key = 65 -> "A" [] key = 66 -> "B" [] key = 67 -> "C"

\* String.prototype.toUpperCase on one character
UpperChar(c) ==
  CASE c = "a" -> "A" [] c = "e" -> "E" [] c = "h" -> "H" [] c = "l" -> "L"
    [] c = "n" -> "N" [] c = "p" -> "P" [] c = "r" -> "R" [] c = "y" -> "Y"
    [] OTHER -> c
toUpperCase(str) == [i \in 1..Len(str) |-> UpperChar(str[i])]

\* str.indexOf(prefix) === 0
StartsWith(str, prefix) ==
  Len(prefix) <= Len(str) /\ \A i \in 1..Len(prefix) : str[i] = prefix[i]
\* aria-keyshortcuts values a move button may carry
KeyShortcuts == { {"Delete"} }
\* what getAttribute('aria-keyshortcuts') gives for a button without the attribute
NoAttribute == { "null" }
\* the move buttons a host may hand to setupMove
MoveShortcuts == { {"Delete"}, {"Enter"}, NoAttribute }

VARIABLES
  children,           \* children[l]: the option elements of listbox l, in order
  elId,               \* elId[e]: n for id 'item-n'
  elLabel,            \* elLabel[e]: innerText
  sel,                \* sel[e]: aria-selected, "none" when the attribute is absent
  chk,                \* chk[e]: aria-checked
  nextEl,             \* the highest element handle in use
  made,               \* number of elements created so far
  multiselectable,    \* multiselectable[l]
  activeDescendant,   \* activeDescendant[l]: an id or NoId
  moveUpDownEnabled,  \* moveUpDownEnabled[l]
  upDis, downDis,     \* aria-disabled of the up and down buttons of l
  moveButton,         \* moveButton[l]: a move button is configured
  moveDis,            \* aria-disabled of the move button of l
  keyshortcuts,       \* aria-keyshortcuts of the move button of l
  siblingList,        \* siblingList[l]: a list or NoList
  keysSoFar,          \* keysSoFar[l]: the type-ahead buffer
  keyClear,           \* keyClear[l]: a timer handle is stored
  timers              \* timers[l]: pending clear-timers of l

vars == << children, elId, elLabel, sel, chk, nextEl, made, multiselectable,
           activeDescendant, moveUpDownEnabled, upDis, downDis, moveButton, moveDis,
           keyshortcuts, siblingList, keysSoFar, keyClear, timers >>

\* The program state as one record, the form the handlers work on.  Three more
\* fields describe the handler that is running: ret, what deleteItems returned;
\* notes, its handleItemChange calls in order; threw, it ended by throwing.
Cur ==
  [ children |-> children, elId |-> elId, elLabel |-> elLabel, sel |-> sel,
    chk |-> chk, nextEl |-> nextEl, made |-> made,
    multiselectable |-> multiselectable, activeDescendant |-> activeDescendant,
    moveUpDownEnabled |-> moveUpDownEnabled, upDis |-> upDis, downDis |-> downDis,
    moveButton |-> moveButton, moveDis |-> moveDis, keyshortcuts |-> keyshortcuts,
    siblingList |-> siblingList, keysSoFar |-> keysSoFar, keyClear |-> keyClear,
    timers |-> timers, ret |-> <<>>, notes |-> <<>>, threw |-> FALSE ]

\* ---- the DOM

Other(l) == 3 - l

\* the option elements of the document in tree order
DocOrder(s) == s.children[1] \o s.children[2]

IndexOf(seq, e) ==
  IF \E i \in 1..Len(seq) : seq[i] = e
    THEN CHOOSE i \in 1..Len(seq) : seq[i] = e /\ \A j \in 1..(i - 1) : seq[j] # e
    ELSE 0

SeqSet(seq) == { seq[i] : i \in 1..Len(seq) }

\* document.getElementById: the first element in tree order with this id
getElementById(s, id) ==
  LET d == DocOrder(s)
      hits == { i \in 1..Len(d) : s.elId[d[i]] = id }
  IN IF id = NoId \/ hits = {} THEN NoElem
     ELSE d[CHOOSE i \in hits : \A j \in hits : i <= j]

\* the listbox an element is a child of, NoList when detached
parentNode(s, e) ==
  IF e # NoElem /\ \E l \in Lists : e \in SeqSet(s.children[l])
    THEN CHOOSE l \in Lists : e \in SeqSet(s.children[l])
    ELSE NoList

previousElementSibling(s, e) ==
  LET p == parentNode(s, e) IN
  IF p = NoList THEN NoElem
  ELSE LET i == IndexOf(s.children[p], e) IN
       IF i > 1 THEN s.children[p][i - 1] ELSE NoElem

nextElementSibling(s, e) ==
  LET p == parentNode(s, e) IN
  IF p = NoList THEN NoElem
  ELSE LET i == IndexOf(s.children[p], e) IN
       IF i < Len(s.children[p]) THEN s.children[p][i + 1] ELSE NoElem

\* Element.remove(): detach e from its parent
remove(s, e) ==
  [s EXCEPT !.children =
     [l \in Lists |-> SelectSeq(s.children[l], LAMBDA x : x # e)]]

\* listboxNode.append(e): e leaves its parent and becomes the last child of l
append(s, l, e) ==
  LET r == remove(s, e) IN
  [r EXCEPT !.children[l] = Append(r.children[l], e)]

\* sequence seq with x moved to sit just before y (both in seq)
MoveBefore(seq, x, y) ==
  LET w == SelectSeq(seq, LAMBDA z : z # x)
      j == IndexOf(w, y)
  IN SubSeq(w, 1, j - 1) \o <<x>> \o SubSeq(w, j, Len(w))

Throw(s) == [s EXCEPT !.threw = TRUE]

\* handleItemChange(event, items) as the host sees it
handleItemChange(s, l, event, items) ==
  [s EXCEPT !.notes = Append(s.notes, [l |-> l, event |-> event, items |-> items])]

\* ---- aria.Listbox

\* querySelector('[role="option"]') on listbox l
firstOption(s, l) == IF s.children[l] = <<>> THEN NoElem ELSE s.children[l][1]

\* querySelector('[aria-selected="true"]') on listbox l finds something
anySelected(s, l) == \E i \in 1..Len(s.children[l]) : s.sel[s.children[l][i]] = "true"

checkUpDownButtons(s, l) ==
  LET activeElement == getElementById(s, s.activeDescendant[l]) IN
  IF s.threw \/ ~s.moveUpDownEnabled[l] THEN s
  ELSE IF activeElement = NoElem
    THEN [s EXCEPT !.upDis[l] = "true", !.downDis[l] = "true"]
  ELSE [s EXCEPT
          !.upDis[l] = IF previousElementSibling(s, activeElement) # NoElem
                         THEN "false" ELSE "true",
          !.downDis[l] = IF nextElementSibling(s, activeElement) # NoElem
                           THEN "false" ELSE "true"]

toggleSelectItem(s, l, element) ==
  IF s.threw \/ ~s.multiselectable[l] THEN s
  ELSE LET s1 == [s EXCEPT
                    !.sel[element] = IF s.sel[element] = "true" THEN "false" ELSE "true",
                    !.chk[element] = IF s.chk[element] = "true" THEN "false" ELSE "true"]
       IN IF s1.moveButton[l]
            THEN [s1 EXCEPT !.moveDis[l] = IF anySelected(s1, l) THEN "false" ELSE "true"]
            ELSE s1

defocusItem(s, l, element) ==
  IF s.threw \/ element = NoElem THEN s
  ELSE IF ~s.multiselectable[l] THEN [s EXCEPT !.sel[element] = "none"] ELSE s

focusItem(s, l, element) ==
  IF s.threw THEN s
  ELSE
  LET s1 == defocusItem(s, l, getElementById(s, s.activeDescendant[l]))
      s2 == IF ~s1.multiselectable[l] THEN [s1 EXCEPT !.sel[element] = "true"] ELSE s1
      s3 == [s2 EXCEPT !.activeDescendant[l] = s2.elId[element]]
      s4 == IF ~s3.multiselectable[l] /\ s3.moveButton[l]
              THEN [s3 EXCEPT !.moveDis[l] = "false"] ELSE s3
  IN checkUpDownButtons(s4, l)

focusFirstItem(s, l) ==
  LET firstItem == firstOption(s, l) IN
  IF firstItem # NoElem THEN focusItem(s, l, firstItem) ELSE s

\* focusLastItem that takes the first of the options
focusLastItemFirst(s, l) ==
  LET itemList == s.children[l] IN
  IF Len(itemList) > 0 THEN focusItem(s, l, itemList[1]) ELSE s

focusLastItem(s, l) ==
  LET itemList == s.children[l] IN
  IF Len(itemList) > 0 THEN focusItem(s, l, itemList[Len(itemList)]) ELSE s

\* the option after currentOption among the options of l, or NoElem
findNextOption(s, l, currentOption) ==
  LET allOptions == s.children[l]
      currentOptionIndex == IndexOf(allOptions, currentOption) - 1
  IN IF currentOptionIndex > -1 /\ currentOptionIndex < Len(allOptions) - 1
       THEN allOptions[currentOptionIndex + 2] ELSE NoElem

findPreviousOption(s, l, currentOption) ==
  LET allOptions == s.children[l]
      currentOptionIndex == IndexOf(allOptions, currentOption) - 1
  IN IF currentOptionIndex > -1 /\ currentOptionIndex > 0
       THEN allOptions[currentOptionIndex] ELSE NoElem

\* clearKeysSoFarAfterDelay without the clearTimeout: the earlier timer stays pending
clearKeysSoFarNoCancel(s, l) ==
  [s EXCEPT !.timers[l] = @ + 1, !.keyClear[l] = TRUE]

clearKeysSoFarAfterDelay(s, l) ==
  LET s1 == IF s.keyClear[l]
              THEN [s EXCEPT !.timers[l] = IF @ > 0 THEN @ - 1 ELSE @,
                             !.keyClear[l] = FALSE]
              ELSE s
  IN [s1 EXCEPT !.timers[l] = @ + 1, !.keyClear[l] = TRUE]

\* indices are those of the code: 0-based, endIndex exclusive
findMatchInRange(s, l, list, startIndex, endIndex) ==
  LET hits == { n \in startIndex..(endIndex - 1) :
                  LET label == s.elLabel[list[n + 1]] IN
                  label # <<>> /\ StartsWith(toUpperCase(label), s.keysSoFar[l]) }
  IN IF hits = {} THEN NoElem
     ELSE list[(CHOOSE n \in hits : \A m \in hits : n <= m) + 1]

\* findItemToFocus with a refocus-on-no-match policy: the first option is returned
findItemToFocusOrFirst(s, l, key) ==
  LET itemList == s.children[l]
      character == fromCharCode(key)
      same == { i \in 0..(Len(itemList) - 1) :
                  s.elId[itemList[i + 1]] = s.activeDescendant[l] }
      searchIndex == IF s.keysSoFar[l] = <<>> /\ same # {}
                       THEN CHOOSE i \in same : \A j \in same : j <= i
                       ELSE 0
      s1 == [s EXCEPT !.keysSoFar[l] = Append(@, character)]
      s2 == clearKeysSoFarAfterDelay(s1, l)
      nextMatch == findMatchInRange(s2, l, itemList, searchIndex + 1, Len(itemList))
      wrapMatch == findMatchInRange(s2, l, itemList, 0, searchIndex)
  IN [s |-> s2,
      item |-> IF nextMatch # NoElem THEN nextMatch
               ELSE IF wrapMatch # NoElem THEN wrapMatch
               ELSE firstOption(s, l)]

\* [s |-> the state after, item |-> the item to focus or NoElem]
findItemToFocus(s, l, key) ==
  LET itemList == s.children[l]
      character == fromCharCode(key)
      same == { i \in 0..(Len(itemList) - 1) :
                  s.elId[itemList[i + 1]] = s.activeDescendant[l] }
      searchIndex == IF s.keysSoFar[l] = <<>> /\ same # {}
                       THEN CHOOSE i \in same : \A j \in same : j <= i
                       ELSE 0
      s1 == [s EXCEPT !.keysSoFar[l] = Append(@, character)]
      s2 == clearKeysSoFarAfterDelay(s1, l)
      nextMatch == findMatchInRange(s2, l, itemList, searchIndex + 1, Len(itemList))
  IN [s |-> s2,
      item |-> IF nextMatch # NoElem THEN nextMatch
               ELSE findMatchInRange(s2, l, itemList, 0, searchIndex)]

\* a handler's result as the state the next handler starts from
Reset(s) == [s EXCEPT !.ret = <<>>, !.notes = <<>>, !.threw = FALSE]

RECURSIVE addItemsLoop(_, _, _, _)
addItemsLoop(s, l, items, i) ==
  IF i > Len(items) THEN s
  ELSE addItemsLoop(
         append(toggleSelectItem(defocusItem(s, l, items[i]), l, items[i]), l, items[i]),
         l, items, i + 1)

\* addItems that focuses the first added item whether or not an item has focus
addItemsFocusAlways(s, l, items) ==
  IF s.threw \/ Len(items) = 0 THEN s
  ELSE LET s1 == addItemsLoop(s, l, items, 1)
       IN handleItemChange(focusItem(s1, l, items[1]), l, "added", items)

addItems(s, l, items) ==
  IF s.threw \/ Len(items) = 0 THEN s
  ELSE LET s1 == addItemsLoop(s, l, items, 1)
           s2 == IF s1.activeDescendant[l] = NoId THEN focusItem(s1, l, items[1]) ELSE s1
       IN handleItemChange(s2, l, "added", items)

RECURSIVE createElements(_, _, _)
createElements(s, items, counter) ==
  IF counter >= Len(items) THEN s
  ELSE LET listItem == s.nextEl + 1 IN
       createElements(
         [s EXCEPT !.nextEl = listItem,
                   !.made = @ + 1,
                   !.elLabel[listItem] = items[counter + 1],
                   !.elId[listItem] = counter,
                   !.chk[listItem] = "true",
                   !.sel[listItem] = "true"],
         items, counter + 1)

createListItems(s, l, items) ==
  IF Len(items) = 0 THEN s
  ELSE LET s1 == createElements(s, items, 0)
           listItems == [i \in 1..Len(items) |-> s.nextEl + i]
       IN addItems(s1, l, listItems)

clearActiveDescendant(s, l) ==
  LET s1 == [s EXCEPT !.activeDescendant[l] = NoId]
      s2 == IF s1.moveButton[l] THEN [s1 EXCEPT !.moveDis[l] = "true"] ELSE s1
  IN checkUpDownButtons(s2, l)

RECURSIVE deleteLoop(_, _, _, _)
deleteLoop(s, l, itemsToDelete, i) ==
  IF s.threw \/ i > Len(itemsToDelete) THEN s
  ELSE LET item == itemsToDelete[i] IN
       IF item = NoElem THEN Throw(s)
       ELSE LET s1 == remove(s, item)
                s2 == IF s1.elId[item] = s1.activeDescendant[l]
                        THEN clearActiveDescendant(s1, l) ELSE s1
            IN deleteLoop(s2, l, itemsToDelete, i + 1)

\* deleteItems with querySelector for querySelectorAll: the first selected item only
deleteItemsFirstOnly(s, l) ==
  LET all == IF s.multiselectable[l]
               THEN SelectSeq(s.children[l], LAMBDA e : s.sel[e] = "true")
             ELSE IF s.activeDescendant[l] # NoId
               THEN << getElementById(s, s.activeDescendant[l]) >>
             ELSE <<>>
      itemsToDelete == IF all = <<>> THEN <<>> ELSE << all[1] >>
  IN IF s.threw THEN s
     ELSE IF Len(itemsToDelete) = 0 THEN [s EXCEPT !.ret = <<>>]
     ELSE LET s1 == deleteLoop(s, l, itemsToDelete, 1)
          IN IF s1.threw THEN s1
             ELSE [handleItemChange(s1, l, "removed", itemsToDelete)
                     EXCEPT !.ret = itemsToDelete]

\* the removed items are left in field ret
deleteItems(s, l) ==
  LET itemsToDelete ==
        IF s.multiselectable[l]
          THEN SelectSeq(s.children[l], LAMBDA e : s.sel[e] = "true")
        ELSE IF s.activeDescendant[l] # NoId
          THEN << getElementById(s, s.activeDescendant[l]) >>
        ELSE <<>>
  IN IF s.threw THEN s
     ELSE IF Len(itemsToDelete) = 0 THEN [s EXCEPT !.ret = <<>>]
     ELSE LET s1 == deleteLoop(s, l, itemsToDelete, 1)
          IN IF s1.threw THEN s1
             ELSE [handleItemChange(s1, l, "removed", itemsToDelete)
                     EXCEPT !.ret = itemsToDelete]

moveUpItems(s, l) ==
  IF s.threw \/ s.activeDescendant[l] = NoId THEN s
  ELSE LET currentItem == getElementById(s, s.activeDescendant[l])
           previousItem == previousElementSibling(s, currentItem)
       IN IF currentItem = NoElem THEN Throw(s)
          ELSE IF previousItem = NoElem THEN checkUpDownButtons(s, l)
          ELSE IF parentNode(s, previousItem) # l THEN Throw(s)
          ELSE checkUpDownButtons(
                 handleItemChange(
                   [s EXCEPT !.children[l] = MoveBefore(@, currentItem, previousItem)],
                   l, "moved_up", << currentItem >>),
                 l)

\* moveDownItems with the arguments of insertBefore exchanged: nothing moves
moveDownItemsNoSwap(s, l) ==
  IF s.threw \/ s.activeDescendant[l] = NoId THEN s
  ELSE LET currentItem == getElementById(s, s.activeDescendant[l])
           nextItem == nextElementSibling(s, currentItem)
       IN IF currentItem = NoElem THEN Throw(s)
          ELSE IF nextItem = NoElem THEN checkUpDownButtons(s, l)
          ELSE IF parentNode(s, nextItem) # l THEN Throw(s)
          ELSE checkUpDownButtons(
                 handleItemChange(s, l, "moved_down", << currentItem >>), l)

moveDownItems(s, l) ==
  IF s.threw \/ s.activeDescendant[l] = NoId THEN s
  ELSE LET currentItem == getElementById(s, s.activeDescendant[l])
           nextItem == nextElementSibling(s, currentItem)
       IN IF currentItem = NoElem THEN Throw(s)
          ELSE IF nextItem = NoElem THEN checkUpDownButtons(s, l)
          ELSE IF parentNode(s, currentItem) # l THEN Throw(s)
          ELSE checkUpDownButtons(
                 handleItemChange(
                   [s EXCEPT !.children[l] = MoveBefore(@, nextItem, currentItem)],
                   l, "moved_down", << currentItem >>),
                 l)

\* moveItems that deletes and does not hand the items to the sibling
moveItemsNoAdd(s, l) ==
  IF s.threw \/ s.siblingList[l] = NoList THEN s
  ELSE deleteItems(s, l)

moveItems(s, l) ==
  IF s.threw \/ s.siblingList[l] = NoList THEN s
  ELSE LET s1 == deleteItems(s, l) IN addItems(s1, s.siblingList[l], s1.ret)

enableMoveUpDown(s, l) == [s EXCEPT !.moveUpDownEnabled[l] = TRUE]

setupMove(s, l, shortcuts, sibling) ==
  [s EXCEPT !.siblingList[l] = sibling, !.moveButton[l] = TRUE,
            !.keyshortcuts[l] = shortcuts]

\* the walk of checkKeyPress over siblings whose aria-selected is 'true'
RECURSIVE skipSelectedForward(_, _)
skipSelectedForward(s, e) ==
  IF e = NoElem \/ s.sel[e] # "true" THEN e
  ELSE skipSelectedForward(s, nextElementSibling(s, e))

RECURSIVE skipSelectedBackward(_, _)
skipSelectedBackward(s, e) ==
  IF e = NoElem \/ s.sel[e] # "true" THEN e
  ELSE skipSelectedBackward(s, previousElementSibling(s, e))

\* the BACKSPACE / DELETE / RETURN case of checkKeyPress
checkKeyPressMove(s, l, key, nextItem) ==
  IF ~s.moveButton[l] THEN s
  ELSE IF s.keyshortcuts[l] = NoAttribute THEN Throw(s)
  ELSE IF key = KeyCode.RETURN /\ "Enter" \notin s.keyshortcuts[l] THEN s
  ELSE IF key \in {KeyCode.BACKSPACE, KeyCode.DELETE} /\ "Delete" \notin s.keyshortcuts[l]
    THEN s
  ELSE LET after == skipSelectedForward(s, nextElementSibling(s, nextItem))
           nextUnselected ==
             IF after # NoElem THEN after
             ELSE skipSelectedBackward(s, previousElementSibling(s, nextItem))
           s1 == moveItems(s, l)
       IN IF ~s1.threw /\ s1.activeDescendant[l] = NoId /\ nextUnselected # NoElem
            THEN focusItem(s1, l, nextUnselected)
            ELSE s1

\* the UP / DOWN case without its test for a missing focus
checkKeyPressUpDownNoGuard(s, l, key, ctrlKey, nextItem) ==
  IF s.moveUpDownEnabled[l] /\ ctrlKey
    THEN IF key = KeyCode.UP THEN moveUpItems(s, l) ELSE moveDownItems(s, l)
  ELSE LET target == IF key = KeyCode.UP
                       THEN findPreviousOption(s, l, nextItem)
                       ELSE findNextOption(s, l, nextItem)
       IN IF target # NoElem THEN focusItem(s, l, target) ELSE s

\* the UP / DOWN case of checkKeyPress
checkKeyPressUpDown(s, l, key, ctrlKey, nextItem) ==
  IF s.activeDescendant[l] = NoId THEN focusItem(s, l, nextItem)
  ELSE IF s.moveUpDownEnabled[l] /\ ctrlKey
    THEN IF key = KeyCode.UP THEN moveUpItems(s, l) ELSE moveDownItems(s, l)
  ELSE LET target == IF key = KeyCode.UP
                       THEN findPreviousOption(s, l, nextItem)
                       ELSE findNextOption(s, l, nextItem)
       IN IF target # NoElem THEN focusItem(s, l, target) ELSE s

checkKeyPress(s, l, key, ctrlKey) ==
  LET firstItem == firstOption(s, l)
      found == getElementById(s, s.activeDescendant[l])
      nextItem == IF found # NoElem THEN found ELSE firstItem
  IN IF nextItem = NoElem THEN s
     ELSE IF key \in {KeyCode.PAGE_UP, KeyCode.PAGE_DOWN}
       THEN IF s.moveUpDownEnabled[l]
              THEN IF key = KeyCode.PAGE_UP THEN moveUpItems(s, l) ELSE moveDownItems(s, l)
              ELSE s
     ELSE IF key \in {KeyCode.UP, KeyCode.DOWN}
       THEN checkKeyPressUpDown(s, l, key, ctrlKey, nextItem)
     ELSE IF key = KeyCode.HOME THEN focusFirstItem(s, l)
     ELSE IF key = KeyCode.END THEN focusLastItem(s, l)
     ELSE IF key = KeyCode.SPACE THEN toggleSelectItem(s, l, nextItem)
     ELSE IF key \in {KeyCode.BACKSPACE, KeyCode.DELETE, KeyCode.RETURN}
       THEN checkKeyPressMove(s, l, key, nextItem)
     ELSE LET r == findItemToFocus(s, l, key) IN
          IF r.item # NoElem THEN focusItem(r.s, l, r.item) ELSE r.s

\* evt.target is an option of l
checkClickItem(s, l, target) ==
  toggleSelectItem(focusItem(s, l, target), l, target)

\* the callback clearKeysSoFarAfterDelay hands to setTimeout
keyClearTimeout(s, l) ==
  [s EXCEPT !.keysSoFar[l] = <<>>, !.keyClear[l] = FALSE, !.timers[l] = @ - 1]

\* ---- the state machine

Init ==
  /\ children = [l \in Lists |-> <<>>]
  /\ elId = [e \in Elems |-> NoId]
  /\ elLabel = [e \in Elems |-> <<>>]
  /\ sel = [e \in Elems |-> "none"]
  /\ chk = [e \in Elems |-> "none"]
  /\ nextEl = 0
  /\ made = 0
  /\ multiselectable \in [Lists -> BOOLEAN]
  /\ activeDescendant = [l \in Lists |-> NoId]
  /\ moveUpDownEnabled = [l \in Lists |-> FALSE]
  /\ upDis = [l \in Lists |-> "true"]
  /\ downDis = [l \in Lists |-> "true"]
  /\ moveButton = [l \in Lists |-> FALSE]
  /\ moveDis = [l \in Lists |-> "true"]
  /\ keyshortcuts = [l \in Lists |-> {}]
  /\ siblingList = [l \in Lists |-> NoList]
  /\ keysSoFar = [l \in Lists |-> <<>>]
  /\ keyClear = [l \in Lists |-> FALSE]
  /\ timers = [l \in Lists |-> 0]

\* When a handler ends, an element no listbox holds is out of every handler's
\* reach (handlers find elements through the document only) and is forgotten;
\* the elements of the document are then numbered 1..n in tree order, a handle
\* being no more than the identity of an object.
settle(s) ==
  LET d == DocOrder(s)
      n == Len(d)
      n1 == Len(s.children[1])
  IN [s EXCEPT
        !.children = [l \in Lists |-> IF l = 1 THEN [i \in 1..n1 |-> i]
                                               ELSE [i \in 1..(n - n1) |-> n1 + i]],
        !.nextEl = n,
        !.elId = [e \in Elems |-> IF e <= n THEN s.elId[d[e]] ELSE NoId],
        !.elLabel = [e \in Elems |-> IF e <= n THEN s.elLabel[d[e]] ELSE <<>>],
        !.sel = [e \in Elems |-> IF e <= n THEN s.sel[d[e]] ELSE "none"],
        !.chk = [e \in Elems |-> IF e <= n THEN s.chk[d[e]] ELSE "none"]]

\* the handler ends in state t
Becomes(t) ==
  \E u \in { t } : \E s \in { settle(u) } :
  /\ children' = s.children
  /\ elId' = s.elId
  /\ elLabel' = s.elLabel
  /\ sel' = s.sel
  /\ chk' = s.chk
  /\ nextEl' = s.nextEl
  /\ made' = s.made
  /\ multiselectable' = s.multiselectable
  /\ activeDescendant' = s.activeDescendant
  /\ moveUpDownEnabled' = s.moveUpDownEnabled
  /\ upDis' = s.upDis
  /\ downDis' = s.downDis
  /\ moveButton' = s.moveButton
  /\ moveDis' = s.moveDis
  /\ keyshortcuts' = s.keyshortcuts
  /\ siblingList' = s.siblingList
  /\ keysSoFar' = s.keysSoFar
  /\ keyClear' = s.keyClear
  /\ timers' = s.timers

CreateListItems(l, items) ==
  /\ made + Len(items) <= MaxElems
  /\ Becomes(createListItems(Cur, l, items))

DeleteItems(l) ==
  /\ l \in Lists
  /\ Becomes(deleteItems(Cur, l))

MoveUpItems(l) ==
  /\ l \in Lists
  /\ Becomes(moveUpItems(Cur, l))

MoveDownItems(l) ==
  /\ l \in Lists
  /\ Becomes(moveDownItems(Cur, l))

MoveItems(l) ==
  /\ l \in Lists
  /\ Becomes(moveItems(Cur, l))

KeyPress(l, key, ctrlKey) ==
  /\ ctrlKey => key \in {KeyCode.UP, KeyCode.DOWN}
  /\ key \in CharKeys => Len(keysSoFar[l]) < MaxKeys
  /\ Becomes(checkKeyPress(Cur, l, key, ctrlKey))

Click(l, target) ==
  /\ target \in SeqSet(children[l])
  /\ Becomes(checkClickItem(Cur, l, target))

EnableMoveUpDown(l) ==
  /\ ~moveUpDownEnabled[l]
  /\ Becomes(enableMoveUpDown(Cur, l))

SetupMove(l, shortcuts) ==
  /\ ~moveButton[l]
  /\ Becomes(setupMove(Cur, l, shortcuts, Other(l)))

KeyClearTimeout(l) ==
  /\ timers[l] > 0
  /\ Becomes(keyClearTimeout(Cur, l))

\* A page that pairs the two listboxes: each may be given a move button whose
\* sibling is the other list.
Next ==
  \/ \E l \in Lists, items \in CreateInputs : CreateListItems(l, items)
  \/ \E l \in Lists : DeleteItems(l)
  \/ \E l \in Lists : MoveUpItems(l)
  \/ \E l \in Lists : MoveDownItems(l)
  \/ \E l \in Lists : MoveItems(l)
  \/ \E l \in Lists, key \in ControlKeys, ctrlKey \in BOOLEAN : KeyPress(l, key, ctrlKey)
  \/ \E l \in Lists, target \in Elems : Click(l, target)
  \/ \E l \in Lists, shortcuts \in KeyShortcuts : SetupMove(l, shortcuts)

Spec == Init /\ [][Next]_vars

\* A page of ranking listboxes: each may be given its up and down buttons, before
\* or after its items are created (RankingListbox.connectedCallback does it after).
NextReorder ==
  \/ \E l \in Lists, items \in CreateInputs : CreateListItems(l, items)
  \/ \E l \in Lists : DeleteItems(l)
  \/ \E l \in Lists : MoveUpItems(l)
  \/ \E l \in Lists : MoveDownItems(l)
  \/ \E l \in Lists, key \in ControlKeys, ctrlKey \in BOOLEAN : KeyPress(l, key, ctrlKey)
  \/ \E l \in Lists, target \in Elems : Click(l, target)
  \/ \E l \in Lists : EnableMoveUpDown(l)

SpecReorder == Init /\ [][NextReorder]_vars

\* Typing into the listboxes: letter keys, the arrow keys, clicks and the timer.
NextType ==
  \/ \E l \in Lists, items \in CreateInputs : CreateListItems(l, items)
  \/ \E l \in Lists, key \in CharKeys \cup {KeyCode.UP, KeyCode.DOWN} :
       KeyPress(l, key, FALSE)
  \/ \E l \in Lists, target \in Elems : Click(l, target)
  \/ \E l \in Lists : KeyClearTimeout(l)

SpecType == Init /\ [][NextType]_vars

\* The event loop runs the callback of a pending timer: a timer that stays
\* pending fires.
SpecTypeLive == SpecType /\ \A l \in Lists : WF_vars(KeyClearTimeout(l))

\* A page that pairs the two listboxes and is worked from the keyboard: the move
\* buttons differ in their aria-keyshortcuts.
MoveKeys == { KeyCode.BACKSPACE, KeyCode.DELETE, KeyCode.RETURN, KeyCode.SPACE,
              KeyCode.UP, KeyCode.DOWN }

NextMove ==
  \/ \E l \in Lists, items \in CreateInputs : CreateListItems(l, items)
  \/ \E l \in Lists, key \in MoveKeys : KeyPress(l, key, FALSE)
  \/ \E l \in Lists, shortcuts \in MoveShortcuts : SetupMove(l, shortcuts)

SpecMove == Init /\ [][NextMove]_vars

\* ---- the vocabulary of the properties

\* the focused item of list l in state s: the item of l that carries the focused
\* id (the first, should the id repeat in the list), or NoElem
FocusedItem(s, l) ==
  LET own == { i \in 1..Len(s.children[l]) :
                 s.elId[s.children[l][i]] = s.activeDescendant[l] }
  IN IF s.activeDescendant[l] = NoId \/ own = {} THEN NoElem
     ELSE s.children[l][CHOOSE i \in own : \A j \in own : i <= j]

FocusedPos(s, l) == IndexOf(s.children[l], FocusedItem(s, l))

\* the items of l with aria-selected='true', as a set and in list order
Selected(s, l) == { e \in SeqSet(s.children[l]) : s.sel[e] = "true" }
SelectedSeq(s, l) == SelectSeq(s.children[l], LAMBDA e : s.sel[e] = "true")
UnselectedSeq(s, l) == SelectSeq(s.children[l], LAMBDA e : s.sel[e] # "true")

\* ---- the properties

C2_FocusInList ==
  \A l \in Lists :
    activeDescendant[l] # NoId =>
      \E e \in SeqSet(children[l]) : elId[e] = activeDescendant[l]

\* C3: deleteItems on a multi-select listbox removes exactly the selected items,
\* keeps the others in their order, touches no other list, returns the removed
\* items, and with nothing selected returns an empty result and changes nothing.
C3_DeleteSelected ==
  \A l \in Lists :
    multiselectable[l] =>
      LET r == deleteItems(Cur, l) IN
      /\ ~r.threw
      /\ r.children[l] = UnselectedSeq(Cur, l)
      /\ r.children[Other(l)] = children[Other(l)]
      /\ r.ret = SelectedSeq(Cur, l)
      /\ SelectedSeq(Cur, l) = <<>> => r = Cur

\* a multi-select list from which deleteItems removes two items around one it keeps
C3_Witness ==
  \E l \in Lists :
    /\ multiselectable[l]
    /\ Len(children[l]) = 3
    /\ sel[children[l][1]] = "true" /\ sel[children[l][2]] # "true"
    /\ sel[children[l][3]] = "true"
    /\ deleteItems(Cur, l).ret = << children[l][1], children[l][3] >>
    /\ deleteItems(Cur, l).children[l] = << children[l][2] >>

\* the items moveItems is to transfer from l: the selected items of a multi-select
\* list, the focused item of a single-select list
Qualifying(s, l) ==
  IF s.multiselectable[l] THEN SelectedSeq(s, l)
  ELSE IF FocusedItem(s, l) # NoElem THEN << FocusedItem(s, l) >>
  ELSE <<>>

\* C4: moveItems on a listbox with a sibling removes the qualifying items from the
\* source and appends them, in their order, after the items the sibling held.
C4_MoveAppends ==
  \A l \in Lists :
    siblingList[l] # NoList =>
      LET r == moveItems(Cur, l)
          q == Qualifying(Cur, l)
      IN /\ r.children[l] = SelectSeq(children[l], LAMBDA e : e \notin SeqSet(q))
         /\ r.children[siblingList[l]] = children[siblingList[l]] \o q

\* C5: with an item focused, Down on the last item and Up on the first leave the
\* focus where it is, and otherwise the focus moves by one position.
C5_FocusStepsByOne ==
  \A l \in Lists :
    FocusedItem(Cur, l) # NoElem =>
      LET p == FocusedPos(Cur, l)
          n == Len(children[l])
          down == checkKeyPress(Cur, l, KeyCode.DOWN, FALSE)
          up == checkKeyPress(Cur, l, KeyCode.UP, FALSE)
      IN /\ down.children = children /\ up.children = children
         /\ down.activeDescendant[l] = elId[children[l][IF p = n THEN p ELSE p + 1]]
         /\ up.activeDescendant[l] = elId[children[l][IF p = 1 THEN p ELSE p - 1]]

AddItemsPost(before, l, items, after) ==
  /\ after.children[l] = SelectSeq(before.children[l], LAMBDA e : e \notin SeqSet(items))
                           \o items
  /\ after.activeDescendant[l] =
       IF before.activeDescendant[l] = NoId THEN after.elId[items[1]]
       ELSE before.activeDescendant[l]

\* C7: addItems with a non-empty sequence appends the items to the end of the
\* list; with no item focused before, the first appended item becomes focused,
\* and otherwise the focus is unchanged.  addItems is called by createListItems,
\* with the elements it made, and by moveItems, with the items deleteItems returned.
C7_AddItemsAppends ==
  /\ \A l \in Lists, labels \in CreateInputs :
       made + Len(labels) <= MaxElems =>
         LET fresh == [i \in 1..Len(labels) |-> nextEl + i]
             before == createElements(Cur, labels, 0)
         IN AddItemsPost(before, l, fresh, addItems(before, l, fresh))
  /\ \A l \in Lists :
       siblingList[l] # NoList =>
         LET before == deleteItems(Cur, l) IN
         ~before.threw /\ before.ret # <<>> =>
           AddItemsPost(before, siblingList[l], before.ret,
                        addItems(before, siblingList[l], before.ret))

\* moveItems hands two items to a sibling that holds an item and has no focus,
\* or one item to a sibling whose focus is set
C7_Witness ==
  \E l \in Lists :
    /\ siblingList[l] # NoList
    /\ children[siblingList[l]] # <<>>
    /\ LET before == deleteItems(Cur, l)
           after == addItems(before, siblingList[l], before.ret)
       IN /\ ~before.threw
          /\ \/ /\ Len(before.ret) = 2
                /\ before.activeDescendant[siblingList[l]] = NoId
                /\ after.activeDescendant[siblingList[l]] = after.elId[before.ret[1]]
             \/ /\ Len(before.ret) = 1
                /\ before.activeDescendant[siblingList[l]] # NoId
                /\ after.activeDescendant[siblingList[l]] # after.elId[before.ret[1]]

\* the label of item e starts, whatever the case, with the buffer buf
Matches(s, e, buf) == s.elLabel[e] # <<>> /\ StartsWith(toUpperCase(s.elLabel[e]), buf)

LabelsOf(s, l) == [i \in 1..Len(s.children[l]) |-> s.elLabel[s.children[l][i]]]

\* the items of l in the order C8 gives: from the position after the focused item
\* to the end, then from the start of the list up to the focused item
FromFocusOrder(s, l) ==
  LET p == FocusedPos(s, l)
      c == s.children[l]
  IN SubSeq(c, p + 1, Len(c)) \o SubSeq(c, 1, p - 1)

\* C8: on every type-ahead keystroke, the first keystroke and the later ones, the
\* first item in the order above whose label starts with the buffer becomes focused.
C8_SearchFromFocus ==
  \A l \in Lists, key \in CharKeys :
    FocusedItem(Cur, l) # NoElem =>
      LET buf == Append(keysSoFar[l], fromCharCode(key))
          hits == SelectSeq(FromFocusOrder(Cur, l), LAMBDA e : Matches(Cur, e, buf))
      IN hits # <<>> =>
           checkKeyPress(Cur, l, key, FALSE).activeDescendant[l] = elId[hits[1]]

\* C9: a type-ahead keystroke whose buffer is a prefix of no label of the list
\* leaves the focus and the selection flags as they were; with Apple, Banana,
\* Cherry and focus on Apple, b focuses Banana and c, typed before the buffer is
\* cleared, finds nothing for BC and leaves the focus on Banana.
C9_NoMatchKeepsFocus ==
  /\ \A l \in Lists, key \in CharKeys :
       LET buf == Append(keysSoFar[l], fromCharCode(key))
           r == checkKeyPress(Cur, l, key, FALSE)
       IN (\A e \in SeqSet(children[l]) : ~Matches(Cur, e, buf)) =>
            /\ r.activeDescendant = activeDescendant
            /\ r.sel = sel /\ r.chk = chk /\ r.children = children
  /\ \A l \in Lists :
       /\ LabelsOf(Cur, l) = << Apple, Banana, Cherry >>
       /\ FocusedPos(Cur, l) = 1
       /\ keysSoFar[l] = <<>>
       => LET b == checkKeyPress(Cur, l, 66, FALSE)
              c == checkKeyPress(Reset(b), l, 67, FALSE)
          IN /\ b.activeDescendant[l] = elId[children[l][2]]
             /\ c.keysSoFar[l] = << "B", "C" >>
             /\ c.activeDescendant = b.activeDescendant
             /\ c.sel = b.sel /\ c.chk = b.chk

\* b has been typed into Apple, Banana, Cherry and has focused Banana; the buffer
\* is not yet cleared and c will find nothing
C9_Witness ==
  \E l \in Lists :
    /\ LabelsOf(Cur, l) = << Apple, Banana, Cherry >>
    /\ keysSoFar[l] = << "B" >>
    /\ timers[l] = 1
    /\ FocusedPos(Cur, l) = 2
    /\ \A e \in SeqSet(children[l]) : ~Matches(Cur, e, << "B", "C" >>)
    /\ checkKeyPress(Cur, l, 67, FALSE).keysSoFar[l] = << "B", "C" >>

\* C10: with reorder controls configured, the up control is enabled iff the
\* focused item has a predecessor, the down control iff it has a successor, and
\* both are disabled when nothing is focused.
C10_UpDownReflectFocus ==
  \A l \in Lists :
    moveUpDownEnabled[l] =>
      LET p == FocusedPos(Cur, l) IN
      /\ upDis[l] = "false" <=> p > 1
      /\ downDis[l] = "false" <=> (p >= 1 /\ p < Len(children[l]))

\* the move button of l is enabled exactly when an item of l is selected
MoveReflects(s, l) == (s.moveDis[l] = "false") <=> anySelected(s, l)

\* what one operation on list l, or a transfer into l from its sibling, may leave
OperationResults(l) ==
  { checkKeyPress(Cur, l, key, FALSE) :
      key \in { KeyCode.SPACE, KeyCode.UP, KeyCode.DOWN, KeyCode.HOME, KeyCode.END } }
  \cup { checkClickItem(Cur, l, target) : target \in SeqSet(children[l]) }
  \cup { deleteItems(Cur, l), moveItems(Cur, l) }
  \cup { moveItems(Cur, Other(l)) }

\* C11: in a multi-select listbox with a move button, whose button reflects the
\* selection, every operation (selection toggle, click, focus change, deleteItems,
\* moveItems, items added from the sibling) leaves the button enabled iff at least
\* one item of the list is selected.
C11_MoveButtonReflects ==
  \A l \in Lists :
    multiselectable[l] /\ moveButton[l] /\ MoveReflects(Cur, l) =>
      \A r \in OperationResults(l) : MoveReflects(r, l)

\* the result r of an operation leaves the item sequences, the focus and the
\* selection flags of both lists as they are, and the operation raised no error
NoOp(r) ==
  /\ ~r.threw
  /\ r.children = children
  /\ r.activeDescendant = activeDescendant
  /\ r.sel = sel

\* what any one operation on list l may leave
AllResults(l) ==
  { checkKeyPress(Cur, l, key, ctrlKey) :
      key \in ControlKeys \cup CharKeys, ctrlKey \in BOOLEAN }
  \cup { checkClickItem(Cur, l, target) : target \in SeqSet(children[l]) }
  \cup { deleteItems(Cur, l), moveItems(Cur, l), moveUpItems(Cur, l),
         moveDownItems(Cur, l), addItems(Cur, l, <<>>) }
  \cup { createListItems(Cur, l, items) :
           items \in { i \in CreateInputs : made + Len(i) <= MaxElems } }

\* C12: no operation raises an error, and moveUpItems and moveDownItems with no
\* focus, deleteItems with no qualifying item, moveItems with no sibling, addItems
\* with an empty sequence and any key press on an empty list are no-ops.
C12_NoErrorsNoOps ==
  \A l \in Lists :
    /\ \A r \in AllResults(l) : ~r.threw
    /\ activeDescendant[l] = NoId =>
         NoOp(moveUpItems(Cur, l)) /\ NoOp(moveDownItems(Cur, l))
    /\ Qualifying(Cur, l) = <<>> => NoOp(deleteItems(Cur, l))
    /\ siblingList[l] = NoList => NoOp(moveItems(Cur, l))
    /\ NoOp(addItems(Cur, l, <<>>))
    /\ children[l] = <<>> =>
         \A key \in ControlKeys \cup CharKeys, ctrlKey \in BOOLEAN :
           NoOp(checkKeyPress(Cur, l, key, ctrlKey))

\* the move button of l accepts the shortcut that key stands for
Accepted(l, key) ==
  /\ moveButton[l]
  /\ keyshortcuts[l] # NoAttribute
  /\ IF key = KeyCode.RETURN THEN "Enter" \in keyshortcuts[l]
                             ELSE "Delete" \in keyshortcuts[l]

\* C13: a Backspace, Delete or Return key press whose shortcut the move button
\* does not accept, or on a list without a move button, changes neither list's
\* items, focus nor selection and raises no error; so items are transferred only
\* by an accepted key press.
C13_ShortcutGuardsMove ==
  \A l \in Lists, key \in { KeyCode.BACKSPACE, KeyCode.DELETE, KeyCode.RETURN } :
    ~Accepted(l, key) => NoOp(checkKeyPress(Cur, l, key, FALSE))

\* the same with every move button carrying the attribute
C13_WithAttribute ==
  \A l \in Lists, key \in { KeyCode.BACKSPACE, KeyCode.DELETE, KeyCode.RETURN } :
    ~Accepted(l, key) /\ keyshortcuts[l] # NoAttribute =>
      NoOp(checkKeyPress(Cur, l, key, FALSE))

\* a step in which a type-ahead keystroke on l is taken into the buffer
Keystroke(l) == keysSoFar'[l] # keysSoFar[l] /\ keysSoFar'[l] # <<>>

\* C14: at most one clear-timer is pending at any time; a keystroke that arrives
\* while the timer of an earlier one is pending extends the buffer and leaves one
\* timer pending, the buffer being emptied only by the one pending timer firing;
\* and unless keystrokes keep arriving the buffer becomes empty.
C14_OneShotTimer ==
  /\ [](\A l \in Lists : timers[l] <= 1 /\ (keysSoFar[l] # <<>> => timers[l] = 1))
  /\ [][\A l \in Lists :
          /\ Keystroke(l) =>
               /\ \E key \in CharKeys : keysSoFar'[l] = Append(keysSoFar[l], fromCharCode(key))
               /\ timers'[l] = 1
          /\ (keysSoFar[l] # <<>> /\ keysSoFar'[l] = <<>>) =>
               timers[l] = 1 /\ timers'[l] = 0]_vars
  /\ \A l \in Lists : []<><<Keystroke(l)>>_vars \/ []<>(keysSoFar[l] = <<>>)

\* a second keystroke has arrived before the timer of the first fired
C14_Witness ==
  \E l \in Lists : Len(keysSoFar[l]) = 2 /\ timers[l] = 1 /\ keyClear[l]

\* C15: no two items of one list share an id.
C15_UniqueIds ==
  \A l \in Lists :
    \A i, j \in 1..Len(children[l]) :
      i # j => elId[children[l][i]] # elId[children[l][j]]

\* C16: on a non-empty list, whatever is focused before, Home leaves the focus on
\* the first item and End on the last item; the items stay as they are.
C16_HomeEnd ==
  \A l \in Lists :
    children[l] # <<>> =>
      LET home == checkKeyPress(Cur, l, KeyCode.HOME, FALSE)
          end == checkKeyPress(Cur, l, KeyCode.END, FALSE)
      IN /\ ~home.threw /\ ~end.threw
         /\ home.children = children /\ end.children = children
         /\ home.activeDescendant[l] = elId[children[l][1]]
         /\ end.activeDescendant[l] = elId[children[l][Len(children[l])]]
         /\ FocusedPos(home, l) = 1
         /\ elId[FocusedItem(end, l)] = elId[children[l][Len(children[l])]]

\* a list of three items with the middle one focused: Home and End each move the focus
C16_Witness ==
  \E l \in Lists :
    /\ Len(children[l]) = 3
    /\ C15_UniqueIds
    /\ FocusedPos(Cur, l) = 2
    /\ FocusedPos(checkKeyPress(Cur, l, KeyCode.HOME, FALSE), l) = 1
    /\ FocusedPos(checkKeyPress(Cur, l, KeyCode.END, FALSE), l) = 3

\* C17: in a multi-select listbox every item is checked exactly when it is selected.
C17_CheckedMirrorsSelected ==
  \A l \in Lists :
    multiselectable[l] =>
      \A e \in SeqSet(children[l]) : (chk[e] = "true") <=> (sel[e] = "true")

\* C18: an Up or Down key press, with or without Ctrl, on a non-empty list in
\* which nothing is focused focuses the first item and does nothing else: the
\* items keep their order, no item change is reported, the other list keeps its
\* focus and no selection flag changes but that of the newly focused item of a
\* single-select list.
C18_FirstFocusOnly ==
  \A l \in Lists, key \in { KeyCode.UP, KeyCode.DOWN }, ctrlKey \in BOOLEAN :
    children[l] # <<>> /\ activeDescendant[l] = NoId =>
      LET r == checkKeyPress(Cur, l, key, ctrlKey)
          first == children[l][1]
      IN /\ ~r.threw
         /\ r.children = children
         /\ r.notes = <<>>
         /\ r.activeDescendant = [activeDescendant EXCEPT ![l] = elId[first]]
         /\ r.sel = IF multiselectable[l] THEN sel ELSE [sel EXCEPT ![first] = "true"]
         /\ r.chk = chk

\* reorder is enabled on a list of several items none of which is focused, and
\* Ctrl+Down focuses the first
C18_Witness ==
  \E l \in Lists :
    /\ moveUpDownEnabled[l]
    /\ Len(children[l]) >= 2
    /\ activeDescendant[l] = NoId
    /\ elId[children[l][1]] # elId[children[l][2]]
    /\ checkKeyPress(Cur, l, KeyCode.DOWN, TRUE).activeDescendant[l] = elId[children[l][1]]

\* the lists whose item sequence the result r of an operation has changed
Changed(r) == { k \in Lists : r.children[k] # children[k] }

\* the notifications of r, in order, as pairs of list and kind
Kinds(r) == [i \in 1..Len(r.notes) |-> << r.notes[i].l, r.notes[i].event >>]

\* every list r changed got exactly one notification and no other list got any
OnePerChange(r) ==
  /\ \A k \in Changed(r) :
       Cardinality({ i \in 1..Len(r.notes) : r.notes[i].l = k }) = 1
  /\ \A i \in 1..Len(r.notes) : r.notes[i].l \in Changed(r)

\* C19: an operation that changes a list emits exactly one notification on that
\* list, of kind added for addItems, removed for deleteItems, moved_up or
\* moved_down for a reorder; an operation that changes no list emits none; and a
\* moveItems that transfers items emits removed on the source, then added on the
\* sibling.
C19_OneNotification ==
  \A l \in Lists :
    /\ \A r \in AllResults(l) : ~r.threw => OnePerChange(r)
    /\ \A items \in { i \in CreateInputs : made + Len(i) <= MaxElems } :
         Kinds(createListItems(Cur, l, items)) = << << l, "added" >> >>
    /\ LET r == deleteItems(Cur, l) IN
         ~r.threw => Kinds(r) = IF Changed(r) = {} THEN <<>> ELSE << << l, "removed" >> >>
    /\ LET r == moveUpItems(Cur, l) IN
         ~r.threw => Kinds(r) = IF Changed(r) = {} THEN <<>> ELSE << << l, "moved_up" >> >>
    /\ LET r == moveDownItems(Cur, l) IN
         ~r.threw => Kinds(r) = IF Changed(r) = {} THEN <<>> ELSE << << l, "moved_down" >> >>
    /\ LET r == moveItems(Cur, l) IN
         ~r.threw => Kinds(r) = IF Changed(r) = {} THEN <<>>
                                ELSE << << l, "removed" >>, << Other(l), "added" >> >>

\* what a transfer, a reorder, a key press or a click on list l may leave
TransferResults(l) ==
  { checkKeyPress(Cur, l, key, ctrlKey) : key \in ControlKeys, ctrlKey \in BOOLEAN }
  \cup { checkClickItem(Cur, l, target) : target \in SeqSet(children[l]) }
  \cup { moveItems(Cur, l), moveUpItems(Cur, l), moveDownItems(Cur, l) }

\* C20: a moveItems transfer in either direction, a reorder, a focus change or a
\* selection toggle leaves the two lists holding, together, the items they held:
\* none is lost, none occurs twice, none is in both lists.
C20_ItemsConserved ==
  \A l \in Lists :
    \A r \in TransferResults(l) :
      LET before == DocOrder(Cur)
          after == DocOrder(r)
      IN /\ SeqSet(after) = SeqSet(before)
         /\ Len(after) = Len(before)
         /\ Cardinality(SeqSet(after)) = Len(after)
         /\ SeqSet(r.children[1]) \cap SeqSet(r.children[2]) = {}

\* moveItems takes items out of a list and its sibling, which holds items, gets them
C20_Witness ==
  \E l \in Lists :
    /\ siblingList[l] # NoList
    /\ children[Other(l)] # <<>>
    /\ Len(moveItems(Cur, l).children[l]) < Len(children[l])
    /\ Len(moveItems(Cur, l).children[Other(l)]) > Len(children[Other(l)])

\* the focused id C21 expects in list l after an accepted move key: that of the
\* nearest item after the focused one that is not selected, else of the nearest
\* such item before it, else none, when the focused item is among the items
\* moved; the focused id as it was when it is not
FocusAfterMove(l) ==
  LET c == children[l]
      p == FocusedPos(Cur, l)
      after == { i \in (p + 1)..Len(c) : sel[c[i]] # "true" }
      before == { i \in 1..(p - 1) : sel[c[i]] # "true" }
  IN IF FocusedItem(Cur, l) \notin SeqSet(Qualifying(Cur, l)) THEN activeDescendant[l]
     ELSE IF after # {} THEN elId[c[CHOOSE i \in after : \A j \in after : i <= j]]
     ELSE IF before # {} THEN elId[c[CHOOSE i \in before : \A j \in before : j <= i]]
     ELSE NoId

\* C21: an accepted Backspace, Delete or Return key press on a list with a
\* focused item leaves the focus of that list on the nearest unselected item
\* after the focused one, else on the nearest before it, else empty, when the
\* focused item was moved to the sibling, and unchanged when it was not.
C21_FocusAfterMove ==
  \A l \in Lists, key \in { KeyCode.BACKSPACE, KeyCode.DELETE, KeyCode.RETURN } :
    Accepted(l, key) /\ FocusedItem(Cur, l) # NoElem =>
      LET r == checkKeyPress(Cur, l, key, FALSE) IN
      /\ ~r.threw
      /\ r.activeDescendant[l] = FocusAfterMove(l)

====
